---- MODULE Spec2Model ----
(***************************************************************************)
(* The simulation core of the snake game in src/src/lib.rs: the Universe   *)
(* (grid, snake, apple, game-over flag, topology, frame-rate counter) and  *)
(* its three mutators tick, on_click and toggle_topology.                  *)
(*                                                                         *)
(* Scaling.  Universe::new fixes a 64 x 64 grid.  The model keeps the      *)
(* snake of Snake::new() and scales the grid down to width x height, the   *)
(* smallest grid that holds that snake, so that the four edges are within  *)
(* a few ticks of the start.  The external sources (Math.random and the    *)
(* wall clock) are inputs: random() returns r / RandomDenom for r in       *)
(* RandomNumerators, the clock's elapsed time is drawn from ElapsedMs.     *)
(***************************************************************************)
EXTENDS Integers, Sequences, FiniteSets

\* ------------------------------------------------------------------ bounds
\* Grid size (the code: 64 x 64, lib.rs:258-259), scaled down.
width == 6
height == 7
\* Number of calls of tick explored in one run.
MaxTicks == 3
\* Longest chain of samples one apple respawn draws (1 + number of retries).
MaxDraws == 2
\* random() returns r / RandomDenom, r in RandomNumerators.
RandomDenom == 42
RandomNumerators == {0, 7, 36}
\* Universe::new's fps_target, in frames per second.
FpsTarget == 60
\* fps is kept in units of 1 / FpsScale frames per second.
FpsScale == 100
\* Wall-clock time between two calls of FpsCounter::tick, in milliseconds.
ElapsedMs == {10, 20}
\* tick's fps_measurements argument.
FpsMeasurements == {0, 1}

\* ------------------------------------------------------------------- types
\* enum Cell
Alive == 1
Dead == 0

\* enum DirectionName
DirectionName == {"Up", "Down", "Left", "Right"}

\* struct Position
Position(px, py) == [x |-> px, y |-> py]

\* struct Direction
Direction(dvx, dvy) == [vx |-> dvx, vy |-> dvy]

\* Option<Position>: None is the empty sequence, Some(p) is <<p>>.
None == <<>>
Some(p) == <<p>>

VARIABLES
    cells,      \* Universe.cells: index -> Cell, row-major
    body,       \* Universe.snake.body, head first
    direction,  \* Universe.snake.direction
    apple,      \* Universe.apple
    game_over,  \* Universe.game_over
    topology,   \* Universe.topology
    frames,     \* Universe.counter.frames
    fps,        \* Universe.counter.fps, in units of 1 / FpsScale
    calls,      \* history: number of calls of tick so far
    completed,  \* history: number of calls of tick that ran to the end
    last,       \* history: what the most recent call of tick did
    respawn     \* the call of randomize_apple in progress, if any: pc is the
                \* position of the recursion, first the sample of its outermost frame

vars == <<cells, body, direction, apple, game_over, topology, frames, fps,
          calls, completed, last, respawn>>

\* ----------------------------------------------------------------- helpers
\* Snake::new
SnakeNew ==
    [body |-> <<Position(5, 6), Position(4, 6), Position(3, 6), Position(2, 6)>>,
     direction |-> Direction(1, 0)]

\* Variant of has_index with a column-major index.
has_index_column_major(b, index, universe_width) ==
    \E k \in 1..Len(b) : b[k].x * universe_width + b[k].y = index

\* Snake::has_index
has_index(b, index, universe_width) ==
    \E k \in 1..Len(b) : b[k].y * universe_width + b[k].x = index

\* Universe::get_index
get_index(row, column) == row * width + column

\* Variant of add_u32_i32 in 32-bit unsigned arithmetic,
\* u.wrapping_add(i as u32) % modulo: below zero the sum is 2^32 + u + i.
add_u32_i32_wrapping(u, i, modulo) ==
    IF u + i >= 0 THEN (u + i) % modulo
    ELSE (((65536 % modulo) * (65536 % modulo)) + u + i) % modulo

\* Universe::add_u32_i32: (u as i64 + i as i64).rem_euclid(modulo as i64) as u32
add_u32_i32(u, i, modulo) == (u + i) % modulo

\* random_position: (random() * (max as f64)).floor() as i32, random() = r / RandomDenom
random_position(r, max) == (r * max) \div RandomDenom

\* Variant of contains that compares with the head segment only.
contains_head_only(b, p) == b[1] = p

\* Variant of contains that leaves out the tail segment.
contains_but_tail(b, p) == \E k \in 1..(Len(b) - 1) : b[k] = p

\* Vec::contains on the body (tick, line 212)
contains(b, p) == \E k \in 1..Len(b) : b[k] = p

\* One sample of the random source for an apple: the numerators of the two
\* random() values (x first, then y, lib.rs:151-152).
Draw == [rx : RandomNumerators, ry : RandomNumerators]
DrawSeqs == UNION {[1..n -> Draw] : n \in 1..MaxDraws}

sample_x(d) == random_position(d.rx, width)
sample_y(d) == random_position(d.ry, height)
sample_index(d) == get_index(sample_y(d), sample_x(d))

\* Universe::randomize_apple returns on exactly these sample chains: every
\* sample but the last hits an Alive cell (the else branch recurses; the
\* recursion changes no cell before its last call), the last hits a Dead one.
randomize_apple_returns(c, draws) ==
    /\ Len(draws) >= 1
    /\ \A k \in 1..(Len(draws) - 1) : c[sample_index(draws[k])] # Dead
    /\ c[sample_index(draws[Len(draws)])] = Dead

\* Universe::randomize_apple on cells c, the random source yielding draws:
\* the cells and the apple field when the outermost call returns.
RECURSIVE randomize_apple(_, _)
randomize_apple(c, draws) ==
    LET apple_x == sample_x(Head(draws))
        apple_y == sample_y(Head(draws))
        apple_index == get_index(apple_y, apple_x)
        after == IF c[apple_index] = Dead
                 THEN [cells |-> [c EXCEPT ![apple_index] = Alive], apple |-> None]
                 ELSE randomize_apple(c, Tail(draws))
    IN  \* lines 162-165 run in every frame of the recursion, after the inner call
        [cells |-> after.cells, apple |-> Some(Position(apple_x, apple_y))]

\* FpsCounter::tick: AVG_LEARNING_RATE = 0.01 as a percentage
AvgLearningRatePct == 1

\* Variant of FpsCounterTick that averages on the first call too.
FpsCounterTickFromFirst(c, fps_measurements, elapsed) ==
    LET rate == (fps_measurements * 1000 * FpsScale) \div elapsed
    IN  [fps |-> (c.fps * (100 - AvgLearningRatePct) + rate * AvgLearningRatePct) \div 100,
         frames |-> c.frames + 1]

\* FpsCounter::tick with `elapsed` milliseconds since the previous call
FpsCounterTick(c, fps_measurements, elapsed) ==
    LET rate == (fps_measurements * 1000 * FpsScale) \div elapsed
    IN  [fps |-> IF c.frames # 0
                 THEN (c.fps * (100 - AvgLearningRatePct) + rate * AvgLearningRatePct) \div 100
                 ELSE c.fps,
         frames |-> c.frames + 1]

\* Variant of set_direction_name with the y axis pointing up.
set_direction_name_y_up(name) ==
    CASE name = "Up" -> Direction(0, 1)
      [] name = "Down" -> Direction(0, -1)
      [] name = "Left" -> Direction(-1, 0)
      [] name = "Right" -> Direction(1, 0)

\* Snake::set_direction_name
set_direction_name(name) ==
    CASE name = "Up" -> Direction(0, -1)
      [] name = "Down" -> Direction(0, 1)
      [] name = "Left" -> Direction(-1, 0)
      [] name = "Right" -> Direction(1, 0)

\* ------------------------------------------------------------------- Init
\* Universe::new(Snake::new(), FpsTarget)
Init ==
    /\ cells = [i \in 0..(width * height - 1) |->
                   IF has_index(SnakeNew.body, i, width) THEN Alive ELSE Dead]
    /\ body = SnakeNew.body
    /\ direction = SnakeNew.direction
    /\ apple = None
    /\ game_over = FALSE
    /\ topology = "Toroidal"
    /\ frames = 0
    /\ fps = FpsTarget * FpsScale
    /\ calls = 0
    /\ completed = 0
    /\ last = [kind |-> "new", head |-> SnakeNew.body[1], dir |-> SnakeNew.direction,
               topology |-> "Toroidal", cand |-> SnakeNew.body[1], retried |-> FALSE,
               fps_measurements |-> 0]
    /\ respawn = [pc |-> "idle", first |-> None]

\* ------------------------------------------------------------------- tick
\* Variant of tick_returns_at_once without the early return.
tick_returns_at_once_never(g) == FALSE

\* tick, lines 173-175: the early return in GameOver
tick_returns_at_once(g) == g

\* Variant of out_of_bounds with > for >= on the upper edges.
out_of_bounds_off_by_one(new_x, new_y) ==
    new_x < 0 \/ new_y < 0 \/ new_x > width \/ new_y > height

\* tick, line 185: the Flat bounds test on the candidate coordinates
out_of_bounds(new_x, new_y) ==
    new_x < 0 \/ new_y < 0 \/ new_x >= width \/ new_y >= height

\* tick, lines 177-209: the candidate head; out = the Flat branch returns
new_head_of(topo, head, dir) ==
    IF topo = "Flat"
    THEN LET new_x == head.x + dir.vx
             new_y == head.y + dir.vy
         IN  [out |-> out_of_bounds(new_x, new_y), pos |-> Position(new_x, new_y)]
    ELSE [out |-> FALSE,
          pos |-> Position(add_u32_i32(head.x, dir.vx, width),
                           add_u32_i32(head.y, dir.vy, height))]

\* Variant of apple_is_none that never asks for a respawn.
apple_is_none_never(a) == FALSE

\* tick, line 241: self.apple.is_none()
apple_is_none(a) == a = None

\* The path a call of tick takes from the current state.
TickKind ==
    LET nh == new_head_of(topology, body[1], direction)
    IN  IF tick_returns_at_once(game_over) THEN "noop"
        ELSE IF nh.out THEN "out_of_bounds"
        ELSE IF contains(body, nh.pos) THEN "self_collision"
        ELSE IF apple = None THEN "no_apple"
        ELSE IF nh.pos = apple[1] THEN "eat"
        ELSE "move"

\* The sample chains the random source may be asked for by one call of tick.
RandomSource == IF TickKind \in {"no_apple", "eat"} THEN DrawSeqs ELSE {<<>>}

\* Universe::tick(fps_measurements); the clock gives `elapsed`, the random
\* source gives `draws`.
Tick(fps_measurements, elapsed, draws) ==
    /\ calls < MaxTicks
    /\ calls' = calls + 1
    /\ LET kind == TickKind
           head == body[1]
           new_head == new_head_of(topology, head, direction).pos
           made == [kind |-> kind, head |-> head, dir |-> direction,
                    topology |-> topology, cand |-> new_head,
                    retried |-> Len(draws) > 1,
                    fps_measurements |-> fps_measurements]
       IN  IF kind = "noop" THEN
               \* line 174
               /\ last' = made
               /\ UNCHANGED <<cells, body, direction, apple, game_over, topology,
                              frames, fps, completed, respawn>>
           ELSE IF kind \in {"out_of_bounds", "self_collision"} THEN
               \* lines 186-187 and 213-214
               /\ game_over' = TRUE
               /\ last' = made
               /\ UNCHANGED <<cells, body, direction, apple, topology, frames, fps,
                              completed, respawn>>
           ELSE
               LET \* line 217
                   next0 == cells
                   \* lines 219-230; the respawn of line 221 reads self.cells
                   tail == body[Len(body)]
                   ra == IF kind = "eat" THEN randomize_apple(cells, draws)
                         ELSE [cells |-> cells, apple |-> apple]
                   next1 == IF kind = "eat"
                            THEN [next0 EXCEPT ![get_index(ra.apple[1].y, ra.apple[1].x)] = Alive]
                            ELSE IF kind = "move"
                            THEN [next0 EXCEPT ![get_index(tail.y, tail.x)] = Dead]
                            ELSE next0
                   body1 == IF kind = "move" THEN SubSeq(body, 1, Len(body) - 1) ELSE body
                   \* lines 232-237
                   body2 == <<new_head>> \o body1
                   next2 == [next1 EXCEPT ![get_index(body2[1].y, body2[1].x)] = Alive]
                   \* lines 239-243; this respawn reads the committed grid
                   rb == IF apple_is_none(ra.apple) THEN randomize_apple(next2, draws)
                         ELSE [cells |-> next2, apple |-> ra.apple]
                   \* lines 245-247
                   cnt == IF fps_measurements > 0
                          THEN FpsCounterTick([fps |-> fps, frames |-> frames],
                                              fps_measurements, elapsed)
                          ELSE [fps |-> fps, frames |-> frames]
               IN  \* the call returns only when its respawn, if any, does
                   /\ kind = "eat" => randomize_apple_returns(cells, draws)
                   /\ apple_is_none(ra.apple) => randomize_apple_returns(next2, draws)
                   /\ cells' = rb.cells
                   /\ body' = body2
                   /\ apple' = rb.apple
                   /\ fps' = cnt.fps
                   /\ frames' = cnt.frames
                   /\ completed' = completed + 1
                   /\ last' = made
                   /\ UNCHANGED <<direction, game_over, topology, respawn>>

\* Universe::on_click
on_click(name) ==
    /\ direction' = set_direction_name(name)
    /\ UNCHANGED <<cells, body, apple, game_over, topology, frames, fps,
                   calls, completed, last, respawn>>

\* Variant of toggle_topology that only ever switches to Flat.
toggle_topology_to_flat ==
    /\ topology' = "Flat"
    /\ UNCHANGED <<cells, body, direction, apple, game_over, frames, fps,
                   calls, completed, last, respawn>>

\* Universe::toggle_topology
toggle_topology ==
    /\ topology' = IF topology = "Flat" THEN "Toroidal" ELSE "Flat"
    /\ UNCHANGED <<cells, body, direction, apple, game_over, frames, fps,
                   calls, completed, last, respawn>>

Next ==
    \/ \E fps_measurements \in FpsMeasurements, elapsed \in ElapsedMs, draws \in RandomSource :
           Tick(fps_measurements, elapsed, draws)
    \/ \E name \in DirectionName : on_click(name)
    \/ toggle_topology

Spec == Init /\ [][Next]_vars

\* ------------------------------------------- randomize_apple, step by step
\* One call of randomize_apple followed frame by frame, for the question of
\* whether it returns.  The call is the one of line 221, made by an eating
\* tick: the grid is the pre-tick grid, the candidate head is on the apple.
\* Here the random source may return every cell of the grid.

\* The i-th cell (from 0) of the path that runs through the rows of the grid
\* in alternating sense, a shape a grown snake can take.
PathCell(i) ==
    LET row == i \div width
        col == i % width
    IN  Position(IF row % 2 = 0 THEN col ELSE width - 1 - col, row)

\* A snake of k segments along the path, tail on the first cell.
PathBody(k) == [j \in 1..k |-> PathCell(k - j)]

\* Variant of randomize_apple_frame that records the sample without a retry.
randomize_apple_frame_no_retry(c, first, d) ==
    [cells |-> [c EXCEPT ![sample_index(d)] = Alive],
     apple |-> Some(Position(sample_x(d), sample_y(d))),
     respawn |-> [pc |-> "returned", first |-> first]]

\* One frame of Universe::randomize_apple on cells c with the sample d, the
\* outermost frame having sampled `first` (None in the outermost frame
\* itself).  On a Dead cell the frame marks it and the recursion unwinds:
\* every frame assigns self.apple its own sample (lines 162-165), the
\* outermost one last.  On an Alive cell the frame calls itself (line 159).
randomize_apple_frame(c, first, d) ==
    LET apple_x == sample_x(d)
        apple_y == sample_y(d)
        apple_index == get_index(apple_y, apple_x)
        mine == Some(Position(apple_x, apple_y))
    IN  IF c[apple_index] = Dead
        THEN [cells |-> [c EXCEPT ![apple_index] = Alive],
              apple |-> IF first = None THEN mine ELSE first,
              respawn |-> [pc |-> "returned", first |-> first]]
        ELSE [cells |-> c,
              apple |-> apple,
              respawn |-> [pc |-> "call", first |-> IF first = None THEN mine ELSE first]]

\* The state at line 221 of an eating tick: a snake of k segments along the
\* path, the apple on the next cell of the path, the grid Alive on exactly
\* these k + 1 cells; for k = width * height - 1 the grid has no Dead cell.
RespawnInit ==
    \E k \in 4..(width * height - 1) :
        /\ body = PathBody(k)
        /\ apple = Some(PathCell(k))
        /\ direction = Direction(PathCell(k).x - PathCell(k - 1).x,
                                 PathCell(k).y - PathCell(k - 1).y)
        /\ cells = [i \in 0..(width * height - 1) |->
                       IF has_index(PathBody(k), i, width) \/ i = get_index(PathCell(k).y, PathCell(k).x)
                       THEN Alive ELSE Dead]
        /\ game_over = FALSE
        /\ topology = "Toroidal"
        /\ frames = 0
        /\ fps = FpsTarget * FpsScale
        /\ calls = 1
        /\ completed = 0
        /\ last = [kind |-> "eat", head |-> PathCell(k - 1), dir |-> direction,
                   topology |-> "Toroidal", cand |-> PathCell(k), retried |-> FALSE,
                   fps_measurements |-> 0]
        /\ respawn = [pc |-> "call", first |-> None]

\* random() may return every r / RandomDenom; one r for each column and one
\* for each row stand for all of them, the least that random_position maps
\* there (lines 337-340).
ColumnNumerators ==
    {r \in 0..(RandomDenom - 1) :
        r = 0 \/ random_position(r, width) # random_position(r - 1, width)}

RowNumerators ==
    {r \in 0..(RandomDenom - 1) :
        r = 0 \/ random_position(r, height) # random_position(r - 1, height)}

\* One frame of the recursion samples (rx, ry).
RespawnSample(rx, ry) ==
    /\ respawn.pc = "call"
    /\ LET r == randomize_apple_frame(cells, respawn.first, [rx |-> rx, ry |-> ry])
       IN  /\ cells' = r.cells
           /\ apple' = r.apple
           /\ respawn' = r.respawn
    /\ UNCHANGED <<body, direction, game_over, topology, frames, fps, calls,
                   completed, last>>

\* A frame samples a Dead cell.
RespawnSampleDead ==
    \E rx \in ColumnNumerators, ry \in RowNumerators :
        /\ cells[sample_index([rx |-> rx, ry |-> ry])] = Dead
        /\ RespawnSample(rx, ry)

RespawnNext == \E rx \in ColumnNumerators, ry \in RowNumerators : RespawnSample(rx, ry)

\* The random source is fair: while Dead cells exist it does not avoid them
\* for ever.
RespawnSpec == RespawnInit /\ [][RespawnNext]_vars /\ WF_vars(RespawnSampleDead)

\* ----------------------------------------------------------------- claims
\* Definitions the properties below are stated with.  They are written from
\* the claims, independently of the operators that model the code.
IndexOf(p) == p.y * width + p.x
InBody(p) == \E k \in 1..Len(body) : body[k] = p
TickCalled == calls' = calls + 1
CompletedKinds == {"no_apple", "eat", "move"}
PlainCand == [x |-> body[1].x + direction.vx, y |-> body[1].y + direction.vy]
OutsideGrid(p) == p.x < 0 \/ p.x >= width \/ p.y < 0 \/ p.y >= height
Wrap(v, size) == IF v < 0 THEN size - 1 ELSE IF v >= size THEN 0 ELSE v
WrappedCand == [x |-> Wrap(body[1].x + direction.vx, width),
                y |-> Wrap(body[1].y + direction.vy, height)]
ExpectedCand == IF topology = "Flat" THEN PlainCand ELSE WrappedCand

\* C1: in every reachable state a cell is Alive iff it is the cell of some
\* snake body position or of the recorded apple; every other cell is Dead.
C1_GridMatchesBodyAndApple ==
    \A i \in DOMAIN cells :
        /\ cells[i] \in {Alive, Dead}
        /\ cells[i] = Alive <=>
               \/ \E k \in 1..Len(body) : IndexOf(body[k]) = i
               \/ apple # None /\ IndexOf(apple[1]) = i

\* C2: GameOver is terminal: no step leaves it, and a call of tick in
\* GameOver leaves grid, body, apple, fps and the call counter unchanged.
C2_GameOverTerminal ==
    [][game_over =>
          /\ game_over'
          /\ TickCalled => UNCHANGED <<cells, body, apple, fps, frames>>]_vars

C2_Witness == game_over /\ last.kind = "noop" /\ last.cand # body[1]

\* C3: in Flat topology a tick whose plain candidate head (head + direction)
\* lies outside the grid sets game_over and changes nothing else.
C3_FlatOutOfBounds ==
    [][(TickCalled /\ ~game_over /\ topology = "Flat" /\ OutsideGrid(PlainCand)) =>
          /\ game_over'
          /\ UNCHANGED <<cells, body, direction, apple, topology, fps, frames>>]_vars

C3_Witness ==
    /\ game_over
    /\ last.kind = "out_of_bounds"
    /\ last.head.x = 0
    /\ last.cand.x = -1

\* C4: in either topology a tick in Running whose candidate head is a
\* position of the snake body sets game_over and leaves grid, body, apple
\* and the estimator unchanged.
C4_SelfCollision ==
    [][(TickCalled /\ ~game_over /\ InBody(ExpectedCand)) =>
          /\ game_over'
          /\ UNCHANGED <<cells, body, apple, fps, frames>>]_vars

C4_Witness ==
    /\ game_over
    /\ last.kind = "self_collision"
    /\ InBody(last.cand)
    /\ last.topology = "Flat"

\* C5: in Toroidal topology the candidate head is the head plus the
\* direction, wrapped to the opposite edge on both axes and in both senses;
\* a Toroidal tick ends in GameOver only on a body position, never on an edge.
C5_ToroidalWrap ==
    [][(TickCalled /\ ~game_over /\ topology = "Toroidal") =>
          /\ ~OutsideGrid(WrappedCand)
          /\ game_over' => InBody(WrappedCand)
          /\ ~game_over' => body'[1] = WrappedCand]_vars

C5_Witness ==
    /\ last.kind \in CompletedKinds
    /\ last.topology = "Toroidal"
    /\ last.head.x = 0
    /\ last.dir.vx = -1
    /\ body[1].x = width - 1
    /\ ~game_over

\* C6: an eating tick (candidate head on the apple, no collision) makes the
\* body one longer (candidate head in front, tail kept) and leaves exactly
\* one apple, on a cell that was Dead: not the eaten apple's position and
\* no body position.
C6_Eating ==
    [][(TickCalled /\ ~game_over /\ apple # None /\ ~InBody(ExpectedCand)
            /\ ~OutsideGrid(ExpectedCand) /\ ExpectedCand = apple[1]) =>
          /\ body' = <<ExpectedCand>> \o body
          /\ Len(apple') = 1
          /\ cells[IndexOf(apple'[1])] = Dead
          /\ apple'[1] # apple[1]
          /\ ~InBody(apple'[1])]_vars

\* C7: a tick that completes without GameOver and whose candidate head is
\* not on an apple (also when no apple exists yet) keeps the body length:
\* the tail is removed and its cell becomes Dead, the candidate head becomes
\* the first segment and its cell becomes Alive.
C7_NonEatingMove ==
    [][(TickCalled /\ ~game_over /\ ~game_over'
            /\ (apple = None \/ ExpectedCand # apple[1])) =>
          /\ Len(body') = Len(body)
          /\ body' = <<ExpectedCand>> \o SubSeq(body, 1, Len(body) - 1)
          /\ cells'[IndexOf(body[Len(body)])] = Dead
          /\ cells'[IndexOf(ExpectedCand)] = Alive]_vars

\* C8: every tick that completes without GameOver leaves exactly one apple;
\* the apple is absent only while no tick has completed, and no step makes
\* an existing apple absent.
C8_AppleOnceExists ==
    [][/\ (TickCalled /\ ~game_over /\ ~game_over') => Len(apple') = 1
       /\ apple' = None => completed' = 0
       /\ apple # None => apple' # None]_vars

C8_Witness ==
    /\ last.kind = "eat"
    /\ completed >= 2
    /\ Len(apple) = 1

\* C9: the recorded apple is the sampled cell that was Dead and was marked
\* Alive, so in every reachable state it is no snake body position.
C9_AppleOffBody == apple = None \/ ~InBody(apple[1])

\* C10: in every reachable state the body has at least one segment and its
\* positions are pairwise distinct.
C10_BodyDistinct ==
    /\ Len(body) >= 1
    /\ \A j, k \in 1..Len(body) : j # k => body[j] # body[k]

C10_Witness ==
    /\ last.kind = "eat"
    /\ Len(body) = 6
    /\ ~game_over

\* C11: in every reachable state every body position and the apple, when
\* present, lie inside the grid, so every index y * width + x is below
\* width * height, and the cell buffer has exactly width * height entries.
C11_PositionsInGrid ==
    /\ \A k \in 1..Len(body) :
           /\ 0 <= body[k].x /\ body[k].x < width
           /\ 0 <= body[k].y /\ body[k].y < height
           /\ IndexOf(body[k]) < width * height
    /\ apple # None =>
           /\ 0 <= apple[1].x /\ apple[1].x < width
           /\ 0 <= apple[1].y /\ apple[1].y < height
           /\ IndexOf(apple[1]) < width * height
    /\ DOMAIN cells = 0..(width * height - 1)

C11_Witness ==
    /\ topology = "Flat"
    /\ last.topology = "Toroidal"
    /\ last.kind \in CompletedKinds
    /\ last.head.x = width - 1
    /\ body[1].x = 0
    /\ apple # None
    /\ apple[1].y = height - 1

\* The candidate head of a tick under topology topo with direction d.
CandUnder(topo, d) ==
    IF topo = "Flat"
    THEN [x |-> body[1].x + d.vx, y |-> body[1].y + d.vy]
    ELSE [x |-> Wrap(body[1].x + d.vx, width), y |-> Wrap(body[1].y + d.vy, height)]

\* C12: a reversal is detected by the next tick, not by on_click: a change
\* of direction that points the head at the second segment leaves game_over
\* false and the body unchanged, and a tick whose candidate head is the
\* second segment ends in GameOver with grid and body unchanged.
C12_ReversalNextTick ==
    [][/\ (direction' # direction /\ ~game_over /\ Len(body) >= 2
              /\ CandUnder(topology, direction') = body[2]) =>
             /\ ~game_over'
             /\ UNCHANGED <<cells, body>>
       /\ (TickCalled /\ ~game_over /\ Len(body) >= 2 /\ ExpectedCand = body[2]) =>
             /\ game_over'
             /\ UNCHANGED <<cells, body>>]_vars

C12_Witness ==
    /\ game_over
    /\ last.kind = "self_collision"
    /\ last.cand = body[2]
    /\ completed >= 1

\* The unit vector of a direction name, as the claim lists them.
UnitVec(name) ==
    IF name = "Up" THEN [vx |-> 0, vy |-> -1]
    ELSE IF name = "Down" THEN [vx |-> 0, vy |-> 1]
    ELSE IF name = "Left" THEN [vx |-> -1, vy |-> 0]
    ELSE [vx |-> 1, vy |-> 0]

\* C13: in every state, GameOver included, on_click(name) can be called and
\* sets the direction to the unit vector of the name, changing nothing else;
\* the direction is always one of the four unit vectors, and a tick moves by
\* the direction in force when it is called.
C13_OnClick ==
    /\ [](/\ direction \in {UnitVec(n) : n \in DirectionName}
          /\ \A n \in DirectionName :
                 /\ ENABLED (on_click(n) /\ direction' = UnitVec(n))
                 /\ ~ENABLED (on_click(n) /\ direction' # UnitVec(n)))
    /\ [][/\ direction' # direction =>
                UNCHANGED <<cells, body, apple, game_over, topology, fps, frames>>
          /\ (TickCalled /\ ~game_over /\ ~game_over') =>
                body'[1] = CandUnder(topology, direction)]_vars

C13_Witness ==
    /\ game_over
    /\ direction # last.dir
    /\ direction = UnitVec("Up")

\* The other topology.
Flipped(topo) == IF topo = "Flat" THEN "Toroidal" ELSE "Flat"

\* C14: toggle_topology can be called in every state, flips Flat and
\* Toroidal and changes nothing else (so two toggles in a row restore the
\* state), and a tick computes its candidate head under the topology in
\* force when it is called.
C14_ToggleTopology ==
    /\ [](/\ topology \in {"Flat", "Toroidal"}
          /\ ENABLED (toggle_topology /\ topology' = Flipped(topology))
          /\ ~ENABLED (toggle_topology /\ topology' # Flipped(topology)))
    /\ [][/\ topology' # topology =>
                /\ topology' = Flipped(topology)
                /\ Flipped(topology') = topology
                /\ UNCHANGED <<cells, body, direction, apple, game_over, fps, frames>>
          /\ (TickCalled /\ ~game_over /\ topology = "Flat" /\ OutsideGrid(PlainCand)) =>
                game_over'
          /\ (TickCalled /\ ~game_over /\ ~game_over' /\ topology = "Flat") =>
                body'[1] = PlainCand
          /\ (TickCalled /\ ~game_over /\ ~game_over' /\ topology = "Toroidal") =>
                body'[1] = WrappedCand]_vars

C14_Witness ==
    /\ calls = 1
    /\ last.kind = "out_of_bounds"
    /\ last.topology = "Flat"
    /\ topology = "Toroidal"

\* C15: the estimator is advanced once by each tick that completes without
\* GameOver with fps_measurements > 0 and by nothing else; the first
\* advancing call leaves fps at the constructor's target, so fps differs
\* from the target only after at least two advancing calls.
C15_EstimatorAdvance ==
    /\ [](frames <= 1 => fps = FpsTarget * FpsScale)
    /\ [][IF TickCalled /\ ~game_over /\ ~game_over' /\ last'.fps_measurements > 0
          THEN /\ frames' = frames + 1
               /\ frames = 0 => fps' = fps
          ELSE UNCHANGED <<fps, frames>>]_vars

C15_Witness ==
    /\ frames = 2
    /\ fps # FpsTarget * FpsScale
    /\ completed = 3

\* The state Universe::new(Snake::new(), _) is claimed to build.
ConstructedBody ==
    <<[x |-> 5, y |-> 6], [x |-> 4, y |-> 6], [x |-> 3, y |-> 6], [x |-> 2, y |-> 6]>>
ConstructedGrid ==
    /\ DOMAIN cells = 0..(width * height - 1)
    /\ \A i \in DOMAIN cells :
           cells[i] = IF i \in {6 * width + 5, 6 * width + 4, 6 * width + 3, 6 * width + 2}
                      THEN Alive ELSE Dead
    /\ Cardinality({i \in DOMAIN cells : cells[i] = Alive}) = 4

\* C17: construction yields Running, no apple, the body (5,6),(4,6),(3,6),
\* (2,6) head first, direction (1,0), Toroidal topology and a grid in which
\* exactly the four body cells (index y * width + x) are Alive; body, apple
\* and grid stay so until a tick completes.
C17_Construction ==
    /\ ~game_over
    /\ apple = None
    /\ body = ConstructedBody
    /\ direction = [vx |-> 1, vy |-> 0]
    /\ topology = "Toroidal"
    /\ ConstructedGrid
    /\ [](completed = 0 => (apple = None /\ body = ConstructedBody /\ ConstructedGrid))

C17_Witness ==
    /\ calls = 0
    /\ ~game_over
    /\ apple = None
    /\ body = ConstructedBody
    /\ direction = [vx |-> 1, vy |-> 0]
    /\ topology = "Toroidal"
    /\ cells[6 * width + 5] = Alive

\* C18: the body check comes before the tail is removed: a tick whose
\* candidate head is the current tail position ends in GameOver with grid
\* and body unchanged.
C18_TailCollision ==
    [][(TickCalled /\ ~game_over /\ ExpectedCand = body[Len(body)]) =>
          /\ game_over'
          /\ UNCHANGED <<cells, body>>]_vars

C18_Witness ==
    /\ game_over
    /\ last.kind = "self_collision"
    /\ last.cand = body[Len(body)]
    /\ body[1] = last.head

\* Two coordinates one step apart modulo size, and the same modulo size.
StepApart(a, b, size) == (a - b) % size = 1 \/ (b - a) % size = 1
SameMod(a, b, size) == (a - b) % size = 0

\* C19: in every reachable state consecutive body segments differ by one
\* axis-aligned unit step, taken modulo width and height.
C19_BodyConnected ==
    \A k \in 1..(Len(body) - 1) :
        \/ StepApart(body[k].x, body[k + 1].x, width)
               /\ SameMod(body[k].y, body[k + 1].y, height)
        \/ StepApart(body[k].y, body[k + 1].y, height)
               /\ SameMod(body[k].x, body[k + 1].x, width)

C19_Witness ==
    /\ topology = "Flat"
    /\ last.topology = "Flat"
    /\ last.kind \in CompletedKinds
    /\ \E k \in 1..(Len(body) - 1) : body[k].x = 0 /\ body[k + 1].x = width - 1

\* C20: no step shortens the body: a tick changes its length by 0 or 1,
\* a tick that starts or ends in GameOver and every on_click and
\* toggle_topology leave the body as it is, and behind the new head the old
\* segments, all or all but the tail, keep their order.
C20_BodyNeverShrinks ==
    [][/\ Len(body') \in {Len(body), Len(body) + 1}
       /\ (~TickCalled \/ game_over \/ game_over') => body' = body
       /\ body' # body =>
              SubSeq(body', 2, Len(body')) \in {body, SubSeq(body, 1, Len(body) - 1)}]_vars

C20_Witness ==
    /\ last.kind = "move"
    /\ completed = 3
    /\ Len(body) = 6
    /\ body[2] = last.head

\* The cells that are Dead.
DeadCells == {i \in DOMAIN cells : cells[i] = Dead}

\* C16: the respawn returns at the first sampled Dead cell, which it marks;
\* while the grid has a Dead cell it returns eventually under a fair random
\* source; with no Dead cell (an eating tick on a grid filled by the body and
\* the apple) it never returns.
C16_RespawnTerminates ==
    /\ (respawn.pc = "call" /\ DeadCells # {}) ~> (respawn.pc = "returned")
    /\ [][/\ (respawn.pc = "call" /\ respawn'.pc = "returned") =>
                \E i \in DeadCells : cells' = [cells EXCEPT ![i] = Alive]
          /\ (respawn.pc = "call" /\ respawn'.pc = "call") => cells' = cells
          /\ (respawn.pc = "call" /\ DeadCells = {}) => respawn'.pc = "call"
          /\ respawn.pc = "returned" => respawn'.pc = "returned"]_vars

C16_Witness ==
    /\ respawn.pc = "returned"
    /\ respawn.first # None
    /\ DeadCells = {}

====
